---- MODULE Spec2Model ----
(***************************************************************************)
(* A model of script.py: the text chunker split_text, the synthesis        *)
(* orchestrator generate_book_tts, the voice conversion orchestrator       *)
(* convert_to_user_voice and the Streamlit front end main that drives      *)
(* them from file-existence checks and button presses.                     *)
(*                                                                         *)
(* A text is a sequence of one-character strings.  A waveform is a         *)
(* sequence of segments [src, vc, ms]: ms milliseconds of the speech of    *)
(* chunk src, voice-converted or not; adjacent segments of the same speech *)
(* are kept merged, so equal audio is an equal sequence.                   *)
(***************************************************************************)
EXTENDS Integers, Sequences, FiniteSets, TLC

VARIABLES
    \* split_text, stepped one loop iteration at a time
    input,        \* the text argument as passed by the caller
    max_chars,    \* the max_chars argument
    text,         \* the local text: what remains to be cut
    chunks,       \* the local chunks
    spc,          \* position in split_text: "loop" or "done"
    pieces,       \* history: the raw cuts made so far, in order
    \* the front end and the files under OUTPUT_DIR
    uploaded_file,    \* main: the uploaded PDF (an index into Docs), 0 when none
    voice_sample,     \* main: whether a voice sample is uploaded
    fs,               \* the file system: path -> content, for the paths that exist
    pc,               \* position in main / generate_book_tts / convert_to_user_voice
    ui,               \* what the last press of a button showed: "", "error", "success"
    \* locals of generate_book_tts
    gtext,            \* the text argument
    gchunks,          \* chunks
    temp_files,       \* temp_files
    final_audio,      \* final_audio
    \* locals of convert_to_user_voice
    audio,            \* audio
    vchunks,          \* chunks (the windows)
    converted_audio,  \* converted_audio
    i,                \* the index of the running for loop
    \* history
    op,               \* the operation running or last run: kind, artifact before, status
    results,          \* per item of that operation: whether it succeeded, and its waveform
    clicks            \* button presses so far

splitVars == <<input, max_chars, text, chunks, spc, pieces>>

genVars == <<gtext, gchunks, temp_files, final_audio>>

convVars == <<audio, vchunks, converted_audio>>

appVars == <<uploaded_file, voice_sample, fs, pc, ui, genVars, convVars, i, op,
             results, clicks>>

vars == <<splitVars, appVars>>

----------------------------------------------------------------------------
(* Bounds and program constants *)

\* Largest number of runs a generated input text is made of.
MaxRuns == 4

\* script.py:37 and :40, "if len(chunk) > 20".
MinChunkLen == 20

\* script.py:29, the default of max_chars.
DefaultMaxChars == 1500

\* script.py:83, the default of chunk_ms.
ChunkMs == 15000

\* Number of pages, of one full-size sentence each, of the uploaded book.
MaxBook == 2

\* Largest number of button presses in one behaviour.
MaxClicks == 3

----------------------------------------------------------------------------
(* Python string primitives *)

\* c * n
Repeat(c, n) == [k \in 1..n |-> c]

\* s[:n] for n >= 0
Prefix(s, n) == SubSeq(s, 1, IF n < Len(s) THEN n ELSE Len(s))

\* s[n:] for n >= 0
Suffix(s, n) == SubSeq(s, n + 1, Len(s))

\* s.rfind(c): the 0-based index of the last c in s, or -1
Rfind(s, c) ==
    IF \A k \in 1..Len(s) : s[k] # c THEN -1
    ELSE (CHOOSE k \in 1..Len(s) :
            s[k] = c /\ \A j \in (k + 1)..Len(s) : s[j] # c) - 1

\* s.find(c): the 0-based index of the first c in s, or -1
Find(s, c) ==
    IF \A k \in 1..Len(s) : s[k] # c THEN -1
    ELSE (CHOOSE k \in 1..Len(s) :
            s[k] = c /\ \A j \in 1..(k - 1) : s[j] # c) - 1

\* what \s matches and strip() removes, among the characters of the model
IsSpace(c) == c \in {" ", "\n"}

\* s.strip(): s without its leading and trailing whitespace
Strip(s) ==
    IF \A k \in 1..Len(s) : IsSpace(s[k]) THEN <<>>
    ELSE LET first == CHOOSE k \in 1..Len(s) :
                        ~IsSpace(s[k]) /\ \A j \in 1..(k - 1) : IsSpace(s[j])
             last == CHOOSE k \in 1..Len(s) :
                        ~IsSpace(s[k]) /\ \A j \in (k + 1)..Len(s) : IsSpace(s[j])
         IN  SubSeq(s, first, last)

RECURSIVE Flatten(_)
Flatten(ss) == IF ss = <<>> THEN <<>> ELSE Head(ss) \o Flatten(Tail(ss))

----------------------------------------------------------------------------
(* split_text, script.py:29-42 *)

\* text[:max_chars], the window searched for a period (line 33)
Window(t, mc) == Prefix(t, mc)

\* variant of SplitIndex: cuts at the first period of the window (find for rfind)
SplitIndexFirstDot(t, mc) ==
    LET r == Find(Window(t, mc), ".")
    IN  IF r = -1 THEN mc ELSE r

\* lines 33-35
SplitIndex(t, mc) ==
    LET r == Rfind(Window(t, mc), ".")
    IN  IF r = -1 THEN mc ELSE r

\* text[:split_index + 1] (line 36, before .strip())
RawPiece(t, mc) == Prefix(t, SplitIndex(t, mc) + 1)

\* line 36
CutChunk(t, mc) == Strip(RawPiece(t, mc))

\* variant of Rest: text[split_index:], keeping the character cut at
RestKeepingCutChar(t, mc) == Suffix(t, SplitIndex(t, mc))

\* line 39
Rest(t, mc) == Suffix(t, SplitIndex(t, mc) + 1)

\* variant of KeepChunk: >= for >
KeepChunkAtFloor(cs, c) == IF Len(c) >= MinChunkLen THEN Append(cs, c) ELSE cs

\* lines 37-38 and 40-41: append unless a tiny fragment
KeepChunk(cs, c) == IF Len(c) > MinChunkLen THEN Append(cs, c) ELSE cs

RECURSIVE split_loop(_, _, _)
split_loop(t, mc, cs) ==
    IF Len(t) > mc
    THEN split_loop(Rest(t, mc), mc, KeepChunk(cs, CutChunk(t, mc)))
    ELSE KeepChunk(cs, Strip(t))

\* the whole function, as its callers use it
split_text(t, mc) == split_loop(t, mc, <<>>)

----------------------------------------------------------------------------
(* Input texts for split_text: up to MaxRuns runs of one character each *)

LongRun == MinChunkLen + 1

Runs == {Repeat(c, n) : c \in {"a", ".", " "}, n \in {1, LongRun}}

RECURSIVE TextsOf(_)
TextsOf(n) ==
    IF n = 0 THEN {<<>>}
    ELSE LET shorter == TextsOf(n - 1)
         IN  shorter \cup {t \o r : t \in shorter, r \in Runs}

SplitInputs == TextsOf(MaxRuns)

MaxCharsChoices ==
    {1, 2, MinChunkLen - 1, MinChunkLen + 1, MinChunkLen + 4, DefaultMaxChars}

----------------------------------------------------------------------------
(* split_text as a state machine *)

AppIdle ==
    /\ uploaded_file = 0
    /\ voice_sample = FALSE
    /\ fs = <<>>
    /\ pc = "idle"
    /\ ui = ""
    /\ gtext = <<>> /\ gchunks = <<>> /\ temp_files = <<>> /\ final_audio = <<>>
    /\ audio = <<>> /\ vchunks = <<>> /\ converted_audio = <<>>
    /\ i = 0
    /\ op = [kind |-> "none", existed |-> FALSE, before |-> <<>>, status |-> "none",
             at |-> "idle"]
    /\ results = <<>>
    /\ clicks = 0

SplitInit ==
    /\ AppIdle
    /\ input \in SplitInputs
    /\ max_chars \in MaxCharsChoices
    /\ text = input
    /\ chunks = <<>>
    /\ spc = "loop"
    /\ pieces = <<>>

\* one iteration of the while loop, lines 32-39
SplitLoop ==
    /\ spc = "loop"
    /\ Len(text) > max_chars
    /\ chunks' = KeepChunk(chunks, CutChunk(text, max_chars))
    /\ text' = Rest(text, max_chars)
    /\ pieces' = Append(pieces, [raw |-> RawPiece(text, max_chars),
                                 window |-> Window(text, max_chars),
                                 final |-> FALSE])
    /\ UNCHANGED <<input, max_chars, spc, appVars>>

\* the loop exit and the final remainder, lines 40-42
SplitReturn ==
    /\ spc = "loop"
    /\ Len(text) <= max_chars
    /\ chunks' = KeepChunk(chunks, Strip(text))
    /\ pieces' = Append(pieces, [raw |-> text,
                                 window |-> Window(text, max_chars),
                                 final |-> TRUE])
    /\ spc' = "done"
    /\ UNCHANGED <<input, max_chars, text, appVars>>

SplitNext == SplitLoop \/ SplitReturn

SplitSpec == SplitInit /\ [][SplitNext]_vars

----------------------------------------------------------------------------
(* Properties of split_text *)

HasDot(s) == \E k \in 1..Len(s) : s[k] = "."

\* whether the cut recorded as p was appended to chunks
Kept(p) == Len(Strip(p.raw)) > MinChunkLen

LoopPieces == SelectSeq(pieces, LAMBDA p : ~p.final)

Raws == [k \in 1..Len(pieces) |-> pieces[k].raw]

Trimmed == [k \in 1..Len(pieces) |-> Strip(pieces[k].raw)]

\* C1: every chunk returned has at most max_chars characters, and a cut made
\* in a window without a period is made after exactly max_chars characters.
C1_ChunksWithinMaxChars ==
    /\ \A k \in 1..Len(chunks) : Len(chunks[k]) <= max_chars
    /\ \A k \in 1..Len(pieces) :
          (~pieces[k].final /\ ~HasDot(pieces[k].window))
              => Len(pieces[k].raw) = max_chars

\* C5: the cuts partition the input (nothing lost, duplicated or reordered)
\* and chunks is, in order, exactly the trimmed cuts longer than MinChunkLen.
C5_PiecesPartitionInput ==
    /\ Flatten(Raws) \o (IF spc = "done" THEN <<>> ELSE text) = input
    /\ chunks = SelectSeq(Trimmed, LAMBDA c : Len(c) > MinChunkLen)

C5_Witness ==
    /\ spc = "done"
    /\ Len(pieces) >= 2
    /\ \E k \in 1..Len(pieces) : Kept(pieces[k]) /\ Strip(pieces[k].raw) # pieces[k].raw
    /\ \E k \in 1..Len(pieces) : ~Kept(pieces[k]) /\ pieces[k].raw # <<>>

\* C6: every chunk, from the loop or the final remainder, has trimmed length
\* above MinChunkLen, and a text of at most MinChunkLen characters yields none.
C6_MinimumLengthFloor ==
    /\ \A k \in 1..Len(chunks) : Len(Strip(chunks[k])) > MinChunkLen
    /\ (spc = "done" /\ Len(input) <= MinChunkLen) => chunks = <<>>

C6_Witness ==
    /\ spc = "done"
    /\ \E k \in 1..Len(pieces) : ~pieces[k].final /\ Kept(pieces[k])
    /\ \E k \in 1..Len(pieces) : ~pieces[k].final /\ ~Kept(pieces[k])
                                    /\ Strip(pieces[k].raw) # <<>>
    /\ Kept(pieces[Len(pieces)])

\* the cut p ends at the rightmost period of its window
EndsAtLastDot(p) ==
    /\ Len(p.raw) = Rfind(p.window, ".") + 1
    /\ Strip(p.raw) # <<>>
    /\ Strip(p.raw)[Len(Strip(p.raw))] = "."

\* C7 as stated: every returned chunk whose window holds a period, the last
\* chunk included, ends at the rightmost period of that window.
C7_EveryChunkEndsAtLastDot ==
    \A k \in 1..Len(pieces) :
        (Kept(pieces[k]) /\ HasDot(pieces[k].window)) => EndsAtLastDot(pieces[k])

\* C7 amended: every chunk cut inside the loop (from a remaining text longer
\* than max_chars) whose window holds a period ends at the rightmost period of
\* that window; the final remainder is returned whole.
C7_LoopChunksEndAtLastDot ==
    /\ \A k \in 1..Len(pieces) :
          (~pieces[k].final /\ Kept(pieces[k]) /\ HasDot(pieces[k].window))
              => EndsAtLastDot(pieces[k])
    /\ \A k \in 1..Len(pieces) :
          (pieces[k].final /\ Kept(pieces[k])) => chunks[Len(chunks)] = Strip(text)

C7_Witness ==
    /\ spc = "done"
    /\ \E k \in 1..Len(pieces) :
          /\ ~pieces[k].final /\ Kept(pieces[k])
          /\ Len(pieces[k].raw) < Len(pieces[k].window)
          /\ Cardinality({j \in 1..Len(pieces[k].window) : pieces[k].window[j] = "."}) >= 2
    /\ Kept(pieces[Len(pieces)]) /\ HasDot(pieces[Len(pieces)].window)
    /\ ~EndsAtLastDot(pieces[Len(pieces)])

\* C10: split_text terminates: every iteration of the loop removes at least one
\* character from the remaining text, so the iterations made never outnumber
\* the characters removed and the loop runs at most Len(input) times.
C10_SplitTextTerminates ==
    /\ Len(LoopPieces) + Len(text) <= Len(input)
    /\ \A k \in 1..Len(pieces) : ~pieces[k].final => Len(pieces[k].raw) >= 1

C10_Witness ==
    /\ spc = "done"
    /\ \E k \in 1..Len(pieces) :
          ~pieces[k].final /\ Rfind(pieces[k].window, ".") = 0
    /\ \E k \in 1..Len(pieces) :
          ~pieces[k].final /\ ~HasDot(pieces[k].window)

----------------------------------------------------------------------------
(* Waveforms (pydub.AudioSegment): run-length encoded audio *)

\* AudioSegment.empty()
Empty == <<>>

RECURSIVE Duration(_)
\* len(audio), in milliseconds
Duration(w) == IF w = <<>> THEN 0 ELSE Head(w).ms + Duration(Tail(w))

\* variant of Concat: b + a
ConcatReversed(a, b) ==
    IF b = <<>> THEN a
    ELSE IF a = <<>> THEN b
    ELSE LET x == b[Len(b)]
             y == a[1]
         IN  IF x.src = y.src /\ x.vc = y.vc
             THEN SubSeq(b, 1, Len(b) - 1)
                    \o <<[x EXCEPT !.ms = x.ms + y.ms]>> \o Tail(a)
             ELSE b \o a

\* a + b (the += of lines 70 and 118): b's audio after a's
Concat(a, b) ==
    IF a = <<>> THEN b
    ELSE IF b = <<>> THEN a
    ELSE LET x == a[Len(a)]
             y == b[1]
         IN  IF x.src = y.src /\ x.vc = y.vc
             THEN SubSeq(a, 1, Len(a) - 1)
                    \o <<[x EXCEPT !.ms = x.ms + y.ms]>> \o Tail(b)
             ELSE a \o b

RECURSIVE ConcatAll(_)
ConcatAll(ws) == IF ws = <<>> THEN Empty ELSE Concat(Head(ws), ConcatAll(Tail(ws)))

RECURSIVE Slice(_, _, _)
\* audio[from:to], in milliseconds (to is capped at the end of the audio)
Slice(w, from, to) ==
    IF w = <<>> \/ to <= 0 THEN <<>>
    ELSE LET h == Head(w)
             lo == IF from > 0 THEN from ELSE 0
             hi == IF to < h.ms THEN to ELSE h.ms
             rest == Slice(Tail(w), from - h.ms, to - h.ms)
         IN  IF lo < hi THEN <<[h EXCEPT !.ms = hi - lo]>> \o rest ELSE rest

\* range(0, n, step) as the sequence of its values
RangeStep(n, step) == [k \in 1..((n + step - 1) \div step) |-> (k - 1) * step]

\* line 102: [audio[i:i + chunk_ms] for i in range(0, len(audio), chunk_ms)]
Windows(a, chunk_ms) ==
    LET starts == RangeStep(Duration(a), chunk_ms)
    IN  [k \in 1..Len(starts) |-> Slice(a, starts[k], starts[k] + chunk_ms)]

----------------------------------------------------------------------------
(* The external models, as far as the orchestrators see them *)

\* How long the speech rendered for chunk number n lasts: n + 1 half windows,
\* so that the windows of a merged audio end on and off chunk boundaries.
TtsMs(n) == (ChunkMs \div 2) * (n + 1)

\* tts.tts_to_file(text=chunk, ...) on success: the speech of chunk number n
Synth(n) == <<[src |-> n, vc |-> FALSE, ms |-> TtsMs(n)]>>

\* vc_tts.voice_conversion_to_file(...) on success: the same content and timing
\* in the reference voice
VoiceConversion(w) == [k \in 1..Len(w) |-> [w[k] EXCEPT !.vc = TRUE]]

\* what a model call that raised may have left at file_path
Partial == <<[src |-> -1, vc |-> FALSE, ms |-> 1]>>

\* the uploaded voice sample
Sample == <<[src |-> -2, vc |-> FALSE, ms |-> ChunkMs]>>

----------------------------------------------------------------------------
(* Files.  The base name of the uploaded PDF is taken to differ from the    *)
(* fixed names (user_voice_sample, temp_in_<n>, temp_out_<n>), so the       *)
(* paths below are distinct.                                                *)

PdfPath == <<"pdf", 0>>
SpeechPath == <<"speech", 0>>            \* outputs/<base>.wav
ConvertedPath == <<"converted", 0>>      \* outputs/<base>_converted.wav
RefPath == <<"user_voice_sample", 0>>
ChunkFile(n) == <<"chunk", n>>           \* chunk_<n>.wav
TempIn(n) == <<"temp_in", n>>            \* outputs/temp_in_<n>.wav
TempOut(n) == <<"temp_out", n>>          \* outputs/temp_out_<n>.wav

\* os.path.exists(path)
Exists(f, path) == path \in DOMAIN f

\* open(path, "wb").write(content), and every other creation of a file
Write(f, path, content) ==
    [q \in DOMAIN f \cup {path} |-> IF q = path THEN content ELSE f[q]]

\* os.remove(path)
Remove(f, path) == [q \in DOMAIN f \ {path} |-> f[q]]

\* lines 123-126: "if os.path.exists(p): os.remove(p)"
RemoveIfExists(f, path) == IF Exists(f, path) THEN Remove(f, path) ELSE f

\* variant of Export: nothing is written for an empty waveform
ExportUnlessEmpty(f, path, w) == IF w = Empty THEN f ELSE Write(f, path, w)

\* final_audio.export(output_file, ...) and converted_audio.export(output_file, ...)
Export(f, path, w) == Write(f, path, w)

----------------------------------------------------------------------------
(* extract_text_from_pdf, script.py:14-26 *)

\* One token stands for an occurrence, in any letter case, of the phrase
\* "Scan to Download".
Watermark == "<Scan to Download>"

\* lines 19-22: the pages that yield text, each followed by a newline
RECURSIVE PageTexts(_)
PageTexts(pages) ==
    IF pages = <<>> THEN <<>>
    ELSE (IF Head(pages) # <<>> THEN Head(pages) \o <<"\n">> ELSE <<>>)
            \o PageTexts(Tail(pages))

\* line 24
RemoveWatermark(s) == SelectSeq(s, LAMBDA c : c # Watermark)

\* line 25: every run of whitespace becomes one space
CollapseSpaces(s) ==
    LET marked == [k \in 1..Len(s) |->
                     [c |-> IF IsSpace(s[k]) THEN " " ELSE s[k],
                      drop |-> IsSpace(s[k]) /\ k > 1 /\ IsSpace(s[k - 1])]]
        kept == SelectSeq(marked, LAMBDA m : ~m.drop)
    IN  <<>> \o [j \in 1..Len(kept) |-> kept[j].c]

extract_text_from_pdf(pages) == Strip(CollapseSpaces(RemoveWatermark(PageTexts(pages))))

\* The documents a user may upload: pages without text, a few words, and a
\* book of MaxBook pages of one full-size sentence each.
Sentence == Repeat("a", DefaultMaxChars - 1) \o <<".">>

FewWords == Repeat("a", 3) \o <<" ">> \o Repeat("a", 4) \o <<".">>

Docs ==
    << << <<>>, <<Watermark, " ">>, <<>> >>,
       << FewWords >>,
       [k \in 1..MaxBook |-> Sentence] >>

----------------------------------------------------------------------------
(* main, generate_book_tts and convert_to_user_voice as a state machine *)

Init ==
    /\ AppIdle
    /\ input = <<>> /\ max_chars = DefaultMaxChars /\ text = <<>>
    /\ chunks = <<>> /\ spc = "done" /\ pieces = <<>>

NoOp == [kind |-> "none", existed |-> FALSE, before |-> Empty, status |-> "none",
         at |-> "idle"]

\* the artifact of an operation
Artifact(kind) ==
    IF kind \in {"generate", "regenerate"} THEN SpeechPath ELSE ConvertedPath

Before(f, path) == IF Exists(f, path) THEN f[path] ELSE Empty

\* a button is pressed: the history of the operation it starts
Start(kind) ==
    /\ op' = [kind |-> kind, existed |-> Exists(fs, Artifact(kind)),
              before |-> Before(fs, Artifact(kind)), status |-> "running",
              at |-> "idle"]
    /\ results' = <<>>
    /\ clicks' = clicks + 1

\* the run of main ends: its locals and what it displayed are gone
Forget ==
    /\ pc' = "idle"
    /\ ui' = ""
    /\ gtext' = <<>> /\ gchunks' = <<>> /\ temp_files' = <<>> /\ final_audio' = Empty
    /\ audio' = Empty /\ vchunks' = <<>> /\ converted_audio' = Empty
    /\ i' = 0
    /\ op' = NoOp
    /\ results' = <<>>

\* lines 138 and 141-144: a PDF is uploaded and saved under OUTPUT_DIR
UploadPdf ==
    /\ pc = "idle"
    /\ \E d \in 1..Len(Docs) :
          /\ d # uploaded_file
          /\ uploaded_file' = d
          /\ fs' = Write(fs, PdfPath, d)
    /\ UNCHANGED <<voice_sample, pc, ui, genVars, convVars, i, op, results, clicks,
                   splitVars>>

\* line 139
UploadVoice ==
    /\ pc = "idle"
    /\ ~voice_sample
    /\ voice_sample' = TRUE
    /\ UNCHANGED <<uploaded_file, fs, pc, ui, genVars, convVars, i, op, results,
                   clicks, splitVars>>

\* lines 162-171: "Generate Speech" is pressed
ClickGenerate ==
    /\ pc = "idle" /\ clicks < MaxClicks
    /\ uploaded_file # 0
    /\ ~Exists(fs, SpeechPath)
    /\ Start("generate")
    /\ LET t == extract_text_from_pdf(Docs[fs[PdfPath]])
       IN  IF t # <<>>
           THEN gtext' = t /\ pc' = "tts_load" /\ ui' = ""
           ELSE gtext' = gtext /\ pc' = "no_text" /\ ui' = "error"
    /\ UNCHANGED <<uploaded_file, voice_sample, fs, gchunks, temp_files, final_audio,
                   convVars, i, splitVars>>

\* lines 151-161: "Regenerate Speech" is pressed
ClickRegenerate ==
    /\ pc = "idle" /\ clicks < MaxClicks
    /\ uploaded_file # 0
    /\ Exists(fs, SpeechPath)
    /\ Start("regenerate")
    /\ LET t == extract_text_from_pdf(Docs[fs[PdfPath]])
       IN  IF t # <<>>
           THEN gtext' = t /\ pc' = "tts_load" /\ ui' = ""
           ELSE gtext' = gtext /\ pc' = "no_text" /\ ui' = ""
    /\ UNCHANGED <<uploaded_file, voice_sample, fs, gchunks, temp_files, final_audio,
                   convVars, i, splitVars>>

\* the run of main that extracted no text ends
NoTextReturn ==
    /\ pc = "no_text"
    /\ Forget
    /\ UNCHANGED <<uploaded_file, voice_sample, fs, clicks, splitVars>>

\* line 46: the TTS model loads
TtsLoad ==
    /\ pc = "tts_load"
    /\ pc' = "split"
    /\ UNCHANGED <<uploaded_file, voice_sample, fs, ui, genVars, convVars, i, op,
                   results, clicks, splitVars>>

\* lines 52-56; text is not read after line 52 and is dropped from the state
GenSplit ==
    /\ pc = "split"
    /\ gchunks' = split_text(gtext, DefaultMaxChars)
    /\ gtext' = <<>>
    /\ temp_files' = <<>>
    /\ i' = 0
    /\ pc' = "tts_loop"
    /\ UNCHANGED <<uploaded_file, voice_sample, fs, ui, final_audio, convVars,
                   op, results, clicks, splitVars>>

\* lines 59-63: chunk i is rendered to chunk_<i>.wav
TtsChunkOk ==
    /\ pc = "tts_loop" /\ i < Len(gchunks)
    /\ fs' = Write(fs, ChunkFile(i), Synth(i))
    /\ results' = Append(results, [ok |-> TRUE, wave |-> Synth(i)])
    /\ temp_files' = Append(temp_files, ChunkFile(i))
    /\ i' = i + 1
    /\ UNCHANGED <<uploaded_file, voice_sample, pc, ui, gtext, gchunks, final_audio,
                   convVars, op, clicks, splitVars>>

\* lines 61 and 64-65: the model call raises, having written a file or not
TtsChunkFail ==
    /\ pc = "tts_loop" /\ i < Len(gchunks)
    /\ \E left \in BOOLEAN :
          fs' = IF left THEN Write(fs, ChunkFile(i), Partial) ELSE fs
    /\ results' = Append(results, [ok |-> FALSE, wave |-> Empty])
    /\ i' = i + 1
    /\ UNCHANGED <<uploaded_file, voice_sample, pc, ui, genVars, convVars, op, clicks,
                   splitVars>>

\* line 68, after the last chunk
GenLoopExit ==
    /\ pc = "tts_loop" /\ i = Len(gchunks)
    /\ final_audio' = Empty
    /\ i' = 0
    /\ pc' = "merge"
    /\ UNCHANGED <<uploaded_file, voice_sample, fs, ui, gtext, gchunks, temp_files,
                   convVars, op, results, clicks, splitVars>>

\* lines 69-71: one temp file is appended and removed
GenMerge ==
    /\ pc = "merge" /\ i < Len(temp_files)
    /\ final_audio' = Concat(final_audio, fs[temp_files[i + 1]])
    /\ fs' = Remove(fs, temp_files[i + 1])
    /\ i' = i + 1
    /\ UNCHANGED <<uploaded_file, voice_sample, pc, ui, gtext, gchunks, temp_files,
                   convVars, op, results, clicks, splitVars>>

\* line 73
GenExport ==
    /\ pc = "merge" /\ i = Len(temp_files)
    /\ fs' = Export(fs, SpeechPath, final_audio)
    /\ pc' = "gen_bytes"
    /\ UNCHANGED <<uploaded_file, voice_sample, ui, genVars, convVars, i, op, results,
                   clicks, splitVars>>

\* lines 75-79: the in-memory copy is made and generate_book_tts returns
GenReturn ==
    /\ pc = "gen_bytes"
    /\ pc' = "returned"
    /\ ui' = "success"
    /\ op' = [op EXCEPT !.status = "completed"]
    /\ UNCHANGED <<uploaded_file, voice_sample, fs, genVars, convVars, i, results,
                   clicks, splitVars>>

\* lines 184-187: "Convert to My Voice" is pressed
ClickConvert ==
    /\ pc = "idle" /\ clicks < MaxClicks
    /\ uploaded_file # 0 /\ voice_sample
    /\ Exists(fs, SpeechPath) /\ ~Exists(fs, ConvertedPath)
    /\ Start("convert")
    /\ pc' = "vc_ref" /\ ui' = ""
    /\ UNCHANGED <<uploaded_file, voice_sample, fs, genVars, convVars, i, splitVars>>

\* lines 176-182: "Regenerate Converted Speech" is pressed
ClickRegenerateConverted ==
    /\ pc = "idle" /\ clicks < MaxClicks
    /\ uploaded_file # 0 /\ voice_sample
    /\ Exists(fs, SpeechPath) /\ Exists(fs, ConvertedPath)
    /\ Start("reconvert")
    /\ pc' = "vc_ref" /\ ui' = ""
    /\ UNCHANGED <<uploaded_file, voice_sample, fs, genVars, convVars, i, splitVars>>

\* lines 85-88: the uploaded sample is saved
SaveReference ==
    /\ pc = "vc_ref"
    /\ fs' = Write(fs, RefPath, Sample)
    /\ pc' = "vc_load"
    /\ UNCHANGED <<uploaded_file, voice_sample, ui, genVars, convVars, i, op, results,
                   clicks, splitVars>>

\* lines 92-98: freevc24 loads, or it fails and freevc loads
VcLoad ==
    /\ pc = "vc_load"
    /\ pc' = "vc_read"
    /\ UNCHANGED <<uploaded_file, voice_sample, fs, ui, genVars, convVars, i, op,
                   results, clicks, splitVars>>

\* lines 101-104
VcRead ==
    /\ pc = "vc_read"
    /\ audio' = fs[SpeechPath]
    /\ vchunks' = Windows(fs[SpeechPath], ChunkMs)
    /\ converted_audio' = Empty
    /\ i' = 0
    /\ pc' = "vc_loop"
    /\ UNCHANGED <<uploaded_file, voice_sample, fs, ui, genVars, op, results, clicks,
                   splitVars>>

\* lines 107-110: window i is written to temp_in_<i>.wav
VcExportWindow ==
    /\ pc = "vc_loop" /\ i < Len(vchunks)
    /\ fs' = Write(fs, TempIn(i), vchunks[i + 1])
    /\ pc' = "vc_convert"
    /\ UNCHANGED <<uploaded_file, voice_sample, ui, genVars, convVars, i, op, results,
                   clicks, splitVars>>

\* lines 112-118 and 123-126: window i is converted, appended, and cleaned up
VcWindowOk ==
    /\ pc = "vc_convert"
    /\ LET converted == VoiceConversion(fs[TempIn(i)])
           written == Write(fs, TempOut(i), converted)
       IN  /\ converted_audio' = Concat(converted_audio, written[TempOut(i)])
           /\ fs' = RemoveIfExists(RemoveIfExists(written, TempIn(i)), TempOut(i))
           /\ results' = Append(results, [ok |-> TRUE, wave |-> converted])
    /\ i' = i + 1
    /\ pc' = "vc_loop"
    /\ UNCHANGED <<uploaded_file, voice_sample, ui, genVars, audio, vchunks, op,
                   clicks, splitVars>>

\* lines 112-126: the model call, or reading its output, raises, a file having
\* been written at temp_out_<i>.wav or not; both temp files are cleaned up
VcWindowFail ==
    /\ pc = "vc_convert"
    /\ \E left \in BOOLEAN :
          LET written == IF left THEN Write(fs, TempOut(i), Partial) ELSE fs
          IN  fs' = RemoveIfExists(RemoveIfExists(written, TempIn(i)), TempOut(i))
    /\ results' = Append(results, [ok |-> FALSE, wave |-> Empty])
    /\ i' = i + 1
    /\ pc' = "vc_loop"
    /\ UNCHANGED <<uploaded_file, voice_sample, ui, genVars, convVars, op, clicks,
                   splitVars>>

\* lines 129-130: the merged audio is saved and convert_to_user_voice returns
ConvExport ==
    /\ pc = "vc_loop" /\ i = Len(vchunks)
    /\ fs' = Export(fs, ConvertedPath, converted_audio)
    /\ pc' = "returned"
    /\ ui' = "success"
    /\ op' = [op EXCEPT !.status = "completed"]
    /\ UNCHANGED <<uploaded_file, voice_sample, genVars, convVars, i, results, clicks,
                   splitVars>>

\* lines 160-161, 168-169, 181-182, 186-187: the result is shown and main ends
MainReturn ==
    /\ pc = "returned"
    /\ Forget
    /\ UNCHANGED <<uploaded_file, voice_sample, fs, clicks, splitVars>>

\* An exception nothing catches (a model that does not load, lines 46 and 97; a
\* file that cannot be read or written, lines 70, 76, 87, 101, 110) or the end of
\* the process: the run stops where it is and the files stay as they are.
Crash ==
    /\ pc \notin {"idle", "no_text", "returned", "crashed"}
    /\ pc' = "crashed"
    /\ op' = [op EXCEPT !.status = "crashed", !.at = pc]
    /\ UNCHANGED <<uploaded_file, voice_sample, fs, ui, genVars, convVars, i, results,
                   clicks, splitVars>>

\* the page is loaded again after a crash
Restart ==
    /\ pc = "crashed"
    /\ Forget
    /\ UNCHANGED <<uploaded_file, voice_sample, fs, clicks, splitVars>>

Next ==
    \/ UploadPdf \/ UploadVoice
    \/ ClickGenerate \/ ClickRegenerate \/ NoTextReturn
    \/ TtsLoad \/ GenSplit \/ TtsChunkOk \/ TtsChunkFail \/ GenLoopExit
    \/ GenMerge \/ GenExport \/ GenReturn
    \/ ClickConvert \/ ClickRegenerateConverted
    \/ SaveReference \/ VcLoad \/ VcRead \/ VcExportWindow \/ VcWindowOk
    \/ VcWindowFail \/ ConvExport
    \/ MainReturn \/ Crash \/ Restart

Spec == Init /\ [][Next]_vars

----------------------------------------------------------------------------
(* Properties of the orchestrators and the front end *)

Generating == op.kind \in {"generate", "regenerate"}

Converting == op.kind \in {"convert", "reconvert"}

\* the waveforms of the items that succeeded, in index order
Succeeded == [k \in 1..Len(SelectSeq(results, LAMBDA r : r.ok)) |->
                 SelectSeq(results, LAMBDA r : r.ok)[k].wave]

SomeItemFailed == \E k \in 1..Len(results) : ~results[k].ok

\* the least n with n * b >= a
Ceil(a, b) == CHOOSE n \in 0..(a \div b + 1) : n * b >= a /\ (n = 0 \/ (n - 1) * b < a)

\* the steps of an operation that precede its final export
BeforeExport ==
    {"tts_load", "split", "tts_loop", "merge",
     "vc_ref", "vc_load", "vc_read", "vc_loop", "vc_convert"}

ArtifactAsBefore ==
    /\ Exists(fs, Artifact(op.kind)) = op.existed
    /\ op.existed => fs[Artifact(op.kind)] = op.before

\* C2: in both orchestrators the waveform written to the output path is the
\* concatenation, in index order, of exactly the items that succeeded; every
\* chunk of split_text is processed whatever failed before it; the windows are
\* the Ceil(D / chunk_ms) consecutive windows of the source audio.
C2_OutputIsSucceededItemsInOrder ==
    /\ pc \in {"gen_bytes", "returned"} =>
          fs[Artifact(op.kind)] = ConcatAll(Succeeded)
    /\ (pc \in {"gen_bytes", "returned"} /\ Generating) =>
          Len(results) = Len(gchunks)
    /\ (pc \in {"vc_loop", "vc_convert", "returned"} /\ Converting) =>
          /\ Len(vchunks) = Ceil(Duration(audio), ChunkMs)
          /\ ConcatAll(vchunks) = audio
          /\ \A k \in 1..Len(vchunks) :
                /\ Duration(vchunks[k]) <= ChunkMs
                /\ k < Len(vchunks) => Duration(vchunks[k]) = ChunkMs
          /\ \A k \in 1..Len(results) :
                results[k].ok => results[k].wave = VoiceConversion(vchunks[k])
    /\ (pc = "returned" /\ Converting) => Len(results) = Len(vchunks)

C2_Witness ==
    /\ pc = "returned" /\ Converting
    /\ Len(audio) = 2
    /\ Len(results) = 2 /\ ~results[1].ok /\ results[2].ok
    /\ fs[ConvertedPath] = VoiceConversion(vchunks[2])

\* C3: an artifact that held audio before an operation is not left absent or
\* empty because items of that operation failed.
C3_FailuresKeepPreviousArtifact ==
    (op.existed /\ Duration(op.before) > 0 /\ SomeItemFailed) =>
        /\ Exists(fs, Artifact(op.kind))
        /\ Duration(fs[Artifact(op.kind)]) > 0

\* C4: when an orchestrator returns, none of the run's temp files exists,
\* whether the item succeeded or failed.
C4_NoTempFileSurvives ==
    pc = "returned" =>
        /\ Generating => \A n \in 0..(Len(gchunks) - 1) : ~Exists(fs, ChunkFile(n))
        /\ Converting => \A n \in 0..(Len(vchunks) - 1) :
                            ~Exists(fs, TempIn(n)) /\ ~Exists(fs, TempOut(n))

\* C8: when extraction returns the empty string, on the generation and on the
\* regeneration path, the orchestrator is not invoked and the user is shown
\* the "no text extracted" error.
C8_NoTextIsSurfaced ==
    pc = "no_text" => (gtext = <<>> /\ results = <<>> /\ ui = "error")

====
